---- MODULE Spec2Model ----
(***************************************************************************)
(* Client-side request layer of CuraLink (frontend/src/lib/api.ts):        *)
(* TokenManager (the credential store) and APIClient (the request gateway  *)
(* with its cancel-token registry).                                        *)
(*                                                                         *)
(* JavaScript runs one handler at a time: a step of the model is either    *)
(* the synchronous part of a call (up to its first await), the arrival of  *)
(* a response together with the interceptors and the continuation after    *)
(* the await, or the rejection of a cancelled call.                        *)
(***************************************************************************)
EXTENDS Integers, Sequences, FiniteSets, Bags, TLC

\* ---------------------------------------------------------------- bounds
MaxInFlight == 2        \* requests that may be outstanding at once
MaxSources  == 3        \* CancelTokenSource objects created in one run
MaxFavRows  == 2        \* rows ever inserted into the favorites table
MaxPending  == 1        \* calls of the data endpoints outstanding at once
MaxMeetings == 1        \* rows ever inserted into the meeting_requests table
MaxForumRows == 2       \* rows ever inserted into forum_posts, and forum_replies

\* ------------------------------------------------------------- constants
MinPasswordLen == 8     \* validatePassword: password.length < 8
LOGIN_PATH == "/login"  \* window.location.href = '/login'
HOME_PATH  == "/"

NoToken  == "none"      \* localStorage.getItem returns null
Tokens   == {"t1", "t2"}
NoSource == 0
Sources  == 1..MaxSources

\* cancelKey: the default keys of searchClinicalTrials and searchResearchers
\* (a caller may pass either key to any of the four search functions)
Keys == {"searchTrials", "searchResearchers"}

\* e-mail addresses are sequences of characters
GoodEmails == { <<"a", "@", "b", ".", "c">> }
BadEmails  == { <<"a", "b", ".", "c">>,            \* no @
                <<"a", "@", "b">>,                 \* no dot after the @
                <<"a", " ", "@", "b", ".", "c">> } \* white space
Emails     == GoodEmails \cup BadEmails
PwdLens    == {0, MinPasswordLen - 1, MinPasswordLen}
\* the inputs tried while searches are in flight as well
FewEmails  == GoodEmails \cup { <<"a", "b", ".", "c">> }
FewPwdLens == {MinPasswordLen - 1, MinPasswordLen}

\* what the server may answer: a status, an optional detail text and, for
\* login and register, the access token of the AuthResponse
NoDetail  == "none"
Details   == {NoDetail, "detail from server"}
NoStatus  == 0          \* no response at all (network down, 30 s timeout)
Failures  == [status : {401, 500}, detail : Details, tok : {NoToken}]
               \cup {[status |-> NoStatus, detail |-> NoDetail, tok |-> NoToken]}
AuthResponses  == [status : {200}, detail : {NoDetail}, tok : Tokens] \cup Failures
PlainResponses == [status : {200}, detail : {NoDetail}, tok : {NoToken}] \cup Failures

MSG_CANCELLED   == "Request was cancelled"
MSG_NO_RESPONSE == "No response from server. Please check your connection."
MSG_UNEXPECTED  == "An unexpected error occurred"
MSG_EMAIL       == "Invalid email format"
MSG_PASSWORD    == "Password must be at least 8 characters long"
OK              == "ok"

VARIABLES
  token,         \* localStorage['authToken']
  cancelTokens,  \* APIClient.cancelTokens : key -> CancelTokenSource
  nextSource,    \* identity of the next axios.CancelToken.source()
  calls,         \* the bag of requests awaiting their response; a search
                 \* carries its CancelTokenSource and whether cancel() was
                 \* called on it
  location,      \* window.location.href
  last,          \* the step just taken and what it delivered to its caller
  favorites,     \* the favorites table behind /api/favorites
  meetings,      \* the meeting_requests table behind /api/meeting-requests
  connections,   \* the researcher_connections table
  posts,         \* the forum_posts table
  replies,       \* the forum_replies table
  nav            \* useAuthStore.user, and whether Navbar's effect is due

\* the tables of the remote store
srv == <<favorites, meetings, connections, posts, replies>>

vars == <<token, cancelTokens, nextSource, calls, location, last, srv, nav>>

NoLast == [kind |-> "init", op |-> "none", key |-> "none", src |-> NoSource,
           email |-> <<>>, pwdLen |-> 0, status |-> NoStatus,
           outcome |-> "none", data |-> NoToken, superseded |-> FALSE,
           signalled |-> FALSE, late |-> FALSE, clears |-> 0,
           arg |-> "none", result |-> "none", dup |-> FALSE,
           from |-> "none", wrongActor |-> FALSE, actor |-> "nobody",
           served |-> FALSE, auth |-> "none", direct |-> FALSE]

\* ------------------------------------------------------------ TokenManager
\* setItem is skipped (the window guard inverted)
setTokenSkipped(t) == NoToken
setToken(t) == t
getToken(store) == store
removeToken == NoToken

\* -------------------------------------------------------------- validation
\* /^[^\s@]+@[^\s@]+\.[^\s@]+$/
validateEmail(e) ==
  \E i \in 1..Len(e), j \in 1..Len(e) :
     /\ e[i] = "@" /\ e[j] = "."
     /\ 1 < i /\ i + 1 < j /\ j < Len(e)
     /\ \A k \in 1..Len(e) : k # i => e[k] \notin {" ", "@"}

\* off by one: password.length < 7
validatePasswordOffByOne(pwdLen) == ~(pwdLen < MinPasswordLen - 1)
\* TRUE when validatePassword returns, FALSE when it throws
validatePassword(pwdLen) == ~(pwdLen < MinPasswordLen)

\* ------------------------------------------------------------------ errors
\* what the catch block of an operation receives
ResponseErr(status, detail) ==
  [isAxios |-> TRUE, hasResponse |-> TRUE, hasRequest |-> TRUE,
   isCancel |-> FALSE, status |-> status, detail |-> detail, message |-> ""]
NoResponseErr ==
  [isAxios |-> TRUE, hasResponse |-> FALSE, hasRequest |-> TRUE,
   isCancel |-> FALSE, status |-> NoStatus, detail |-> NoDetail, message |-> ""]
\* the Cancel a cancelled token rejects with: a plain object in axios 0.x, an
\* AxiosError without request in axios 1.x
CancelErr(isAx) ==
  [isAxios |-> isAx, hasResponse |-> FALSE, hasRequest |-> FALSE,
   isCancel |-> TRUE, status |-> NoStatus, detail |-> NoDetail,
   message |-> "Request cancelled by user"]
LocalErr(msg) ==
  [isAxios |-> FALSE, hasResponse |-> FALSE, hasRequest |-> FALSE,
   isCancel |-> FALSE, status |-> NoStatus, detail |-> NoDetail, message |-> msg]
ErrOf(resp) ==
  IF resp.status = NoStatus THEN NoResponseErr
  ELSE ResponseErr(resp.status, resp.detail)

StatusMessage(status) ==
  CASE status = 401 -> "Request failed with status 401"
    [] status = 500 -> "Request failed with status 500"
    [] OTHER        -> "Request failed with status"

\* `else` instead of `else if (error.request)`
handleErrorNoRequestTest(err) ==
  IF err.isAxios /\ err.hasResponse
    THEN (IF err.detail # NoDetail THEN err.detail ELSE StatusMessage(err.status))
  ELSE IF err.isAxios THEN MSG_NO_RESPONSE
  ELSE IF err.isCancel THEN MSG_CANCELLED
  ELSE IF err.message # "" THEN err.message
  ELSE MSG_UNEXPECTED

\* the message of the Error that handleError throws
handleError(err) ==
  IF err.isAxios /\ err.hasResponse
    THEN (IF err.detail # NoDetail THEN err.detail ELSE StatusMessage(err.status))
  ELSE IF err.isAxios /\ err.hasRequest THEN MSG_NO_RESPONSE
  ELSE IF err.isCancel THEN MSG_CANCELLED
  ELSE IF err.message # "" THEN err.message
  ELSE MSG_UNEXPECTED

\* ------------------------------------------------------------ interceptors
\* the interceptor tests for 403 instead of 401
responseInterceptorWrongStatus(err, store, loc) ==
  IF err.hasResponse /\ err.status = 403
    THEN [token |-> removeToken, location |-> LOGIN_PATH, clears |-> 1]
    ELSE [token |-> store, location |-> loc, clears |-> 0]

\* response interceptor, error branch
responseInterceptor(err, store, loc) ==
  IF err.hasResponse /\ err.status = 401
    THEN [token |-> removeToken, location |-> LOGIN_PATH, clears |-> 1]
    ELSE [token |-> store, location |-> loc, clears |-> 0]

\* ---------------------------------------------------------------- registry
\* source.cancel(): the request that holds the source sees it cancelled
Cancel(r, source) ==
  IF r.src = source THEN [r EXCEPT !.cancelRequested = TRUE] ELSE r

\* the bag of calls after f was applied to each request (f keeps distinct
\* requests distinct)
MapCalls(f(_), bag) ==
  LET old == BagToSet(bag)
  IN  [x \in {f(r) : r \in old} |-> CopiesIn(CHOOSE r \in old : f(r) = x, bag)]

\* every registered source is cancelled, not only the one under the key
cancelRequestEveryKey(reg, cs, key) ==
  LET f(r) == IF \E k \in DOMAIN reg : reg[k] # NoSource /\ reg[k] = r.src
                THEN [r EXCEPT !.cancelRequested = TRUE] ELSE r
  IN  IF reg[key] # NoSource
        THEN [reg |-> [reg EXCEPT ![key] = NoSource], calls |-> MapCalls(f, cs)]
        ELSE [reg |-> reg, calls |-> cs]

\* the entry is deleted but source.cancel() is not called
cancelRequestDeleteOnly(reg, cs, key) ==
  IF reg[key] # NoSource
    THEN [reg |-> [reg EXCEPT ![key] = NoSource], calls |-> cs]
    ELSE [reg |-> reg, calls |-> cs]

cancelRequest(reg, cs, key) ==
  LET source == reg[key]
      f(r) == Cancel(r, source)
  IN  IF source # NoSource
        THEN [reg |-> [reg EXCEPT ![key] = NoSource], calls |-> MapCalls(f, cs)]
        ELSE [reg |-> reg, calls |-> cs]

\* the new source is registered without cancelRequest(key) before
getCancelTokenNoCancel(reg, cs, key, fresh) ==
  [reg |-> [reg EXCEPT ![key] = fresh], calls |-> cs, source |-> fresh]

getCancelToken(reg, cs, key, fresh) ==
  LET c == cancelRequest(reg, cs, key)
  IN  [reg |-> [c.reg EXCEPT ![key] = fresh], calls |-> c.calls, source |-> fresh]

\* the request config carries no cancelToken
configWithoutCancelToken(source) == NoSource
\* `cancelToken: source.token` in the request config of a search
configCancelToken(source) == source

\* the request was given the token of its source and cancel() was called on it
CancelEffective(r) == r.cfg # NoSource /\ r.cfg = r.src /\ r.cancelRequested

\* ------------------------------------------------------------------- calls
InFlight == BagCardinality(calls)
CanSend  == InFlight < MaxInFlight

NewCall(op, key, src, cfg) ==
  [op |-> op, key |-> key, src |-> src, cfg |-> cfg, cancelRequested |-> FALSE,
   superseded |-> FALSE]

Send(r)   == calls (+) SetToBag({r})
Settle(r) == calls (-) SetToBag({r})

Init ==
  /\ token \in Tokens \cup {NoToken}
  /\ cancelTokens = [k \in Keys |-> NoSource]
  /\ nextSource = 1
  /\ calls = EmptyBag
  /\ location = HOME_PATH
  /\ last = NoLast
  /\ favorites = [next |-> 1, rows |-> {}]
  /\ meetings = [next |-> 1, rows |-> {}]
  /\ connections = [next |-> 1, rows |-> {}]
  /\ posts = [next |-> 1, rows |-> {}]
  /\ replies = [next |-> 1, rows |-> {}]
  /\ nav = [user |-> "nobody", due |-> TRUE]

\* ------------------------------------------------------------ auth: starts
Register(email, pwdLen) ==
  /\ IF ~validateEmail(email)
       THEN /\ last' = [NoLast EXCEPT !.kind = "reject", !.op = "register",
                          !.email = email, !.pwdLen = pwdLen,
                          !.outcome = handleError(LocalErr(MSG_EMAIL))]
            /\ UNCHANGED calls
     ELSE IF ~validatePassword(pwdLen)
       THEN /\ last' = [NoLast EXCEPT !.kind = "reject", !.op = "register",
                          !.email = email, !.pwdLen = pwdLen,
                          !.outcome = handleError(LocalErr(MSG_PASSWORD))]
            /\ UNCHANGED calls
     ELSE /\ CanSend
          /\ calls' = Send(NewCall("register", "none", NoSource, NoSource))
          /\ last' = [NoLast EXCEPT !.kind = "start", !.op = "register",
                        !.email = email, !.pwdLen = pwdLen]
  /\ UNCHANGED <<nav, token, cancelTokens, nextSource, location, srv>>

Login(email, pwdLen) ==
  /\ IF ~validateEmail(email)
       THEN /\ last' = [NoLast EXCEPT !.kind = "reject", !.op = "login",
                          !.email = email, !.pwdLen = pwdLen,
                          !.outcome = handleError(LocalErr(MSG_EMAIL))]
            /\ UNCHANGED calls
     ELSE /\ CanSend
          /\ calls' = Send(NewCall("login", "none", NoSource, NoSource))
          /\ last' = [NoLast EXCEPT !.kind = "start", !.op = "login",
                        !.email = email, !.pwdLen = pwdLen]
  /\ UNCHANGED <<nav, token, cancelTokens, nextSource, location, srv>>

Logout ==
  /\ CanSend
  /\ calls' = Send(NewCall("logout", "none", NoSource, NoSource))
  /\ last' = [NoLast EXCEPT !.kind = "start", !.op = "logout"]
  /\ UNCHANGED <<nav, token, cancelTokens, nextSource, location, srv>>

GetCurrentUser ==
  /\ CanSend
  /\ calls' = Send(NewCall("getCurrentUser", "none", NoSource, NoSource))
  /\ last' = [NoLast EXCEPT !.kind = "start", !.op = "getCurrentUser"]
  /\ UNCHANGED <<nav, token, cancelTokens, nextSource, location, srv>>

\* --------------------------------------------------------- auth: responses
\* the continuation of register after the await, and its catch block
RegisterResponse(r, resp) ==
  LET i == responseInterceptor(ErrOf(resp), token, location)
  IN  /\ BagIn(r, calls) /\ r.op = "register"
      /\ IF resp.status = 200
           THEN /\ token' = setToken(resp.tok)
                /\ location' = location
                /\ last' = [NoLast EXCEPT !.kind = "settle", !.op = r.op,
                              !.status = resp.status, !.outcome = OK,
                              !.data = resp.tok]
           ELSE /\ token' = i.token
                /\ location' = i.location
                /\ last' = [NoLast EXCEPT !.kind = "settle", !.op = r.op,
                              !.status = resp.status, !.clears = i.clears,
                              !.outcome = handleError(ErrOf(resp))]
      /\ calls' = Settle(r)
      /\ UNCHANGED <<nav, cancelTokens, nextSource, srv>>

LoginResponse(r, resp) ==
  LET i == responseInterceptor(ErrOf(resp), token, location)
  IN  /\ BagIn(r, calls) /\ r.op = "login"
      /\ IF resp.status = 200
           THEN /\ token' = setToken(resp.tok)
                /\ location' = location
                /\ last' = [NoLast EXCEPT !.kind = "settle", !.op = r.op,
                              !.status = resp.status, !.outcome = OK,
                              !.data = resp.tok]
           ELSE /\ token' = i.token
                /\ location' = i.location
                /\ last' = [NoLast EXCEPT !.kind = "settle", !.op = r.op,
                              !.status = resp.status, !.clears = i.clears,
                              !.outcome = handleError(ErrOf(resp))]
      /\ calls' = Settle(r)
      /\ UNCHANGED <<nav, cancelTokens, nextSource, srv>>

\* the clearing sits at the end of the try block instead of in finally
logoutClearInTry(failed, store, loc) ==
  IF failed THEN [token |-> store, location |-> loc, outcome |-> OK]
  ELSE [token |-> removeToken, location |-> LOGIN_PATH, outcome |-> OK]

\* logout: the catch block only logs, the finally block always runs
logoutFinally(failed, store, loc) ==
  [token |-> removeToken, location |-> LOGIN_PATH, outcome |-> OK]

LogoutResponse(r, resp) ==
  LET failed == resp.status # 200
      i == IF failed THEN responseInterceptor(ErrOf(resp), token, location)
           ELSE [token |-> token, location |-> location, clears |-> 0]
      f == logoutFinally(failed, i.token, i.location)
  IN  /\ BagIn(r, calls) /\ r.op = "logout"
      /\ token' = f.token
      /\ location' = f.location
      /\ last' = [NoLast EXCEPT !.kind = "settle", !.op = r.op,
                    !.status = resp.status, !.clears = i.clears,
                    !.outcome = f.outcome]
      /\ calls' = Settle(r)
      /\ UNCHANGED <<nav, cancelTokens, nextSource, srv>>

GetCurrentUserResponse(r, resp) ==
  LET i == responseInterceptor(ErrOf(resp), token, location)
  IN  /\ BagIn(r, calls) /\ r.op = "getCurrentUser"
      /\ IF resp.status = 200
           THEN /\ token' = token
                /\ location' = location
                /\ last' = [NoLast EXCEPT !.kind = "settle", !.op = r.op,
                              !.status = resp.status, !.outcome = OK]
           ELSE /\ token' = i.token
                /\ location' = i.location
                /\ last' = [NoLast EXCEPT !.kind = "settle", !.op = r.op,
                              !.status = resp.status, !.clears = i.clears,
                              !.outcome = handleError(ErrOf(resp))]
      /\ calls' = Settle(r)
      /\ UNCHANGED <<nav, cancelTokens, nextSource, srv>>

\* ------------------------------------------------------------------ search
\* a later start under the same key supersedes the searches still in flight
Supersede(r, key) ==
  IF r.op = "search" /\ r.key = key THEN [r EXCEPT !.superseded = TRUE] ELSE r

\* searchClinicalTrials up to the await; searchResearchers, searchPublications
\* and searchHealthExperts are the same code with another URL and default key
Search(key) ==
  LET f(r) == Supersede(r, key)
      g    == getCancelToken(cancelTokens, MapCalls(f, calls), key, nextSource)
      new  == NewCall("search", key, g.source, configCancelToken(g.source))
  IN  /\ CanSend
      /\ nextSource <= MaxSources
      /\ cancelTokens' = g.reg
      /\ nextSource' = nextSource + 1
      /\ calls' = g.calls (+) SetToBag({new})
      /\ last' = [NoLast EXCEPT !.kind = "start", !.op = "search", !.key = key,
                    !.src = g.source]
      /\ UNCHANGED <<nav, token, location, srv>>

\* the response of a search that was not cancelled: the code after the await,
\* or the catch block
SearchResponse(r, resp) ==
  LET i == responseInterceptor(ErrOf(resp), token, location)
  IN  /\ BagIn(r, calls) /\ r.op = "search"
      /\ ~CancelEffective(r)
      /\ IF resp.status = 200
           THEN /\ cancelTokens' = [cancelTokens EXCEPT ![r.key] = NoSource]
                /\ token' = token
                /\ location' = location
                /\ last' = [NoLast EXCEPT !.kind = "settle", !.op = r.op,
                              !.key = r.key, !.src = r.src,
                              !.status = resp.status, !.outcome = OK,
                              !.superseded = r.superseded,
                              !.signalled = r.cancelRequested]
           ELSE /\ cancelTokens' = cancelTokens
                /\ token' = i.token
                /\ location' = i.location
                /\ last' = [NoLast EXCEPT !.kind = "settle", !.op = r.op,
                              !.key = r.key, !.src = r.src,
                              !.status = resp.status, !.clears = i.clears,
                              !.outcome = handleError(ErrOf(resp)),
                              !.superseded = r.superseded,
                              !.signalled = r.cancelRequested]
      /\ calls' = Settle(r)
      /\ UNCHANGED <<nav, nextSource, srv>>

\* a search whose token was cancelled rejects with a Cancel, whether the
\* transport aborted the request or its response still arrives (late)
RejectCancelled(r, isAx, late) ==
  LET e == CancelErr(isAx)
      i == responseInterceptor(e, token, location)
  IN  /\ BagIn(r, calls) /\ r.op = "search"
      /\ CancelEffective(r)
      /\ token' = i.token
      /\ location' = i.location
      /\ last' = [NoLast EXCEPT !.kind = "settle", !.op = r.op, !.key = r.key,
                    !.src = r.src, !.clears = i.clears,
                    !.outcome = handleError(e),
                    !.superseded = r.superseded,
                    !.signalled = r.cancelRequested,
                    !.late = late]
      /\ calls' = Settle(r)
      /\ UNCHANGED <<nav, cancelTokens, nextSource, srv>>

\* every source is cancelled but the map is not cleared
cancelAllWithoutClear(reg, cs) ==
  LET f(r) == IF \E k \in DOMAIN reg : reg[k] # NoSource /\ reg[k] = r.src
                THEN [r EXCEPT !.cancelRequested = TRUE] ELSE r
  IN  [reg |-> reg, calls |-> MapCalls(f, cs)]

cancelAllRequests(reg, cs) ==
  LET f(r) == IF \E k \in DOMAIN reg : reg[k] # NoSource /\ reg[k] = r.src
                THEN [r EXCEPT !.cancelRequested = TRUE] ELSE r
  IN  [reg |-> [k \in DOMAIN reg |-> NoSource], calls |-> MapCalls(f, cs)]

CancelAllRequests ==
  LET a == cancelAllRequests(cancelTokens, calls)
  IN  /\ cancelTokens' = a.reg
      /\ calls' = a.calls
      /\ last' = [NoLast EXCEPT !.kind = "cancelAll"]
      /\ UNCHANGED <<nav, token, nextSource, location, srv>>

Next ==
  \/ \E e \in FewEmails, p \in FewPwdLens : Register(e, p)
  \/ \E e \in FewEmails, p \in FewPwdLens : Login(e, p)
  \/ Logout
  \/ GetCurrentUser
  \/ \E r \in BagToSet(calls), resp \in AuthResponses : RegisterResponse(r, resp)
  \/ \E r \in BagToSet(calls), resp \in AuthResponses : LoginResponse(r, resp)
  \/ \E r \in BagToSet(calls), resp \in PlainResponses : LogoutResponse(r, resp)
  \/ \E r \in BagToSet(calls), resp \in PlainResponses : GetCurrentUserResponse(r, resp)
  \/ \E k \in Keys : Search(k)
  \/ \E r \in BagToSet(calls), resp \in PlainResponses : SearchResponse(r, resp)
  \/ \E r \in BagToSet(calls), isAx \in BOOLEAN, late \in BOOLEAN : RejectCancelled(r, isAx, late)
  \/ CancelAllRequests

Spec == Init /\ [][Next]_vars

\* the searches and the registry alone
NextSearch ==
  \/ \E k \in Keys : Search(k)
  \/ \E r \in BagToSet(calls), resp \in PlainResponses : SearchResponse(r, resp)
  \/ \E r \in BagToSet(calls), isAx \in BOOLEAN, late \in BOOLEAN :
       RejectCancelled(r, isAx, late)
  \/ CancelAllRequests

SpecSearch == Init /\ [][NextSearch]_vars

\* the authentication operations alone, over every input
NextAuth ==
  \/ \E e \in Emails, p \in PwdLens : Register(e, p)
  \/ \E e \in Emails, p \in PwdLens : Login(e, p)
  \/ Logout
  \/ \E r \in BagToSet(calls), resp \in AuthResponses : RegisterResponse(r, resp)
  \/ \E r \in BagToSet(calls), resp \in AuthResponses : LoginResponse(r, resp)
  \/ \E r \in BagToSet(calls), resp \in PlainResponses : LogoutResponse(r, resp)

SpecAuth == Init /\ [][NextAuth]_vars

\* ======================================================= the remote service
\* the bearer credential identifies the actor of a call
NoUser == "nobody"
UserOf(auth) ==
  CASE auth = "t1" -> "u1"
    [] auth = "t2" -> "u2"
    [] OTHER      -> NoUser

\* the reason an endpoint gives when it rejects a call, carried as `detail`
REASON_UNAUTHENTICATED == "Unauthenticated"
REASON_DUPLICATE       == "DuplicateRelationship"
REASON_NOT_FOUND       == "NotFound"

NoBody == "none"
\* the answer of an endpoint that rejects the call
Rejection(status, reason) ==
  [status |-> status, detail |-> reason, body |-> NoBody]
\* the answer the client sees when the service failed before the endpoint ran
Unserved(net) ==
  [status |-> net.status, detail |-> net.detail, body |-> NoBody]

\* a call of a data endpoint may be sent
CanCall == InFlight < MaxPending

\* the request interceptor attaches no Authorization header
ApiCallWithoutToken(op, arg) ==
  [op |-> op, key |-> "none", src |-> NoSource, cfg |-> NoSource,
   cancelRequested |-> FALSE, superseded |-> FALSE,
   auth |-> NoToken, arg |-> arg]

\* the request interceptor attaches the token found when the call is sent
ApiCall(op, arg) ==
  [op |-> op, key |-> "none", src |-> NoSource, cfg |-> NoSource,
   cancelRequested |-> FALSE, superseded |-> FALSE,
   auth |-> getToken(token), arg |-> arg]

\* --------------------------------------------------------------- favorites
\* favorite_type: 'trial', 'publication', 'expert', 'researcher'
ItemTypes     == {"trial", "publication", "expert", "researcher"}
\* the item types callers pass: two of the enumeration and one outside it
FavTypeInputs == {"trial", "publication", "unlisted"}
ItemIds       == {"i1"}
NoFilter      == "none"
FavIds        == 1..MaxFavRows

SameTriple(x, user, type, item) ==
  x.user = user /\ x.type = type /\ x.item = item

\* INSERT INTO favorites on a table without the UNIQUE constraint
favoritesInsertNoUnique(fav, user, type, item) ==
  LET new == [id |-> fav.next, user |-> user, type |-> type, item |-> item]
  IN  [ok |-> TRUE, row |-> new,
       fav |-> [next |-> fav.next + 1, rows |-> fav.rows \cup {new}]]

\* INSERT INTO favorites: UNIQUE(user_id, favorite_type, favorite_id)
favoritesInsert(fav, user, type, item) ==
  LET new == [id |-> fav.next, user |-> user, type |-> type, item |-> item]
  IN  IF \E x \in fav.rows : SameTriple(x, user, type, item)
        THEN [ok |-> FALSE, row |-> NoBody, fav |-> fav]
        ELSE [ok |-> TRUE, row |-> new,
              fav |-> [next |-> fav.next + 1, rows |-> fav.rows \cup {new}]]

\* POST /api/favorites
postFavorites(fav, auth, arg) ==
  LET ins == favoritesInsert(fav, UserOf(auth), arg.type, arg.item)
  IN  IF UserOf(auth) = NoUser
        THEN [answer |-> Rejection(401, REASON_UNAUTHENTICATED), fav |-> fav]
      ELSE IF ~ins.ok
        THEN [answer |-> Rejection(409, REASON_DUPLICATE), fav |-> fav]
      ELSE [answer |-> [status |-> 200, detail |-> NoDetail, body |-> ins.row],
            fav |-> ins.fav]

\* GET /api/favorites?favorite_type=
listFavorites(fav, auth, filter) ==
  IF UserOf(auth) = NoUser
    THEN Rejection(401, REASON_UNAUTHENTICATED)
    ELSE [status |-> 200, detail |-> NoDetail,
          body |-> {x \in fav.rows : /\ x.user = UserOf(auth)
                                     /\ filter # NoFilter => x.type = filter}]

\* DELETE /api/favorites/{id}
deleteFavorite(fav, auth, id) ==
  LET mine == {x \in fav.rows : x.id = id /\ x.user = UserOf(auth)}
  IN  IF UserOf(auth) = NoUser
        THEN [answer |-> Rejection(401, REASON_UNAUTHENTICATED), fav |-> fav]
      ELSE IF mine = {}
        THEN [answer |-> Rejection(404, REASON_NOT_FOUND), fav |-> fav]
      ELSE [answer |-> [status |-> 200, detail |-> NoDetail, body |-> NoBody],
            fav |-> [fav EXCEPT !.rows = fav.rows \ mine]]

\* addFavorite up to the await
AddFavorite(type, item) ==
  /\ CanCall
  /\ calls' = Send(ApiCall("addFavorite", [type |-> type, item |-> item]))
  /\ last' = [NoLast EXCEPT !.kind = "start", !.op = "addFavorite",
                !.arg = [type |-> type, item |-> item]]
  /\ UNCHANGED <<nav, token, cancelTokens, nextSource, location, srv>>

\* getFavorites up to the await
GetFavorites(filter) ==
  /\ CanCall
  /\ calls' = Send(ApiCall("getFavorites", [type |-> filter]))
  /\ last' = [NoLast EXCEPT !.kind = "start", !.op = "getFavorites",
                !.arg = [type |-> filter]]
  /\ UNCHANGED <<nav, token, cancelTokens, nextSource, location, srv>>

\* removeFavorite up to the await
RemoveFavorite(id) ==
  /\ CanCall
  /\ calls' = Send(ApiCall("removeFavorite", [id |-> id]))
  /\ last' = [NoLast EXCEPT !.kind = "start", !.op = "removeFavorite",
                !.arg = [id |-> id]]
  /\ UNCHANGED <<nav, token, cancelTokens, nextSource, location, srv>>

\* isFavorite up to the await inside its call of getFavorites(itemType)
IsFavorite(item, type) ==
  /\ CanCall
  /\ calls' = Send(ApiCall("isFavorite", [type |-> type, item |-> item]))
  /\ last' = [NoLast EXCEPT !.kind = "start", !.op = "isFavorite",
                !.arg = [type |-> type, item |-> item]]
  /\ UNCHANGED <<nav, token, cancelTokens, nextSource, location, srv>>

\* the continuation of addFavorite after the await, and its catch block
AddFavoriteResponse(r, net) ==
  LET ep  == IF net.status = 200 THEN postFavorites(favorites, r.auth, r.arg)
             ELSE [answer |-> Unserved(net), fav |-> favorites]
      ans == ep.answer
      i   == responseInterceptor(ErrOf(ans), token, location)
      \* the endpoint ran and found the triple of the call in the table
      had == /\ net.status = 200
             /\ \E x \in favorites.rows :
                  SameTriple(x, UserOf(r.auth), r.arg.type, r.arg.item)
  IN  /\ BagIn(r, calls) /\ r.op = "addFavorite"
      /\ ep.fav.next <= MaxFavRows + 1
      /\ favorites' = ep.fav
      /\ IF ans.status = 200
           THEN /\ token' = token
                /\ location' = location
                /\ last' = [NoLast EXCEPT !.kind = "settle", !.op = r.op,
                              !.arg = r.arg, !.status = ans.status,
                              !.dup = had,
                              !.outcome = OK, !.result = ans.body]
           ELSE /\ token' = i.token
                /\ location' = i.location
                /\ last' = [NoLast EXCEPT !.kind = "settle", !.op = r.op,
                              !.arg = r.arg, !.status = ans.status,
                              !.clears = i.clears,
                              !.dup = had,
                              !.outcome = handleError(ErrOf(ans))]
      /\ calls' = Settle(r)
      /\ UNCHANGED <<nav, cancelTokens, nextSource, meetings, connections,
                     posts, replies>>

\* the continuation of getFavorites after the await, and its catch block
GetFavoritesResponse(r, net) ==
  LET ans == IF net.status = 200
               THEN listFavorites(favorites, r.auth, r.arg.type)
               ELSE Unserved(net)
      i   == responseInterceptor(ErrOf(ans), token, location)
  IN  /\ BagIn(r, calls) /\ r.op = "getFavorites"
      /\ IF ans.status = 200
           THEN /\ token' = token
                /\ location' = location
                /\ last' = [NoLast EXCEPT !.kind = "settle", !.op = r.op,
                              !.arg = r.arg, !.status = ans.status,
                              !.outcome = OK, !.result = ans.body]
           ELSE /\ token' = i.token
                /\ location' = i.location
                /\ last' = [NoLast EXCEPT !.kind = "settle", !.op = r.op,
                              !.arg = r.arg, !.status = ans.status,
                              !.clears = i.clears,
                              !.outcome = handleError(ErrOf(ans))]
      /\ calls' = Settle(r)
      /\ UNCHANGED <<nav, cancelTokens, nextSource, srv>>

\* the continuation of removeFavorite after the await, and its catch block
RemoveFavoriteResponse(r, net) ==
  LET ep  == IF net.status = 200 THEN deleteFavorite(favorites, r.auth, r.arg.id)
             ELSE [answer |-> Unserved(net), fav |-> favorites]
      ans == ep.answer
      i   == responseInterceptor(ErrOf(ans), token, location)
  IN  /\ BagIn(r, calls) /\ r.op = "removeFavorite"
      /\ favorites' = ep.fav
      /\ IF ans.status = 200
           THEN /\ token' = token
                /\ location' = location
                /\ last' = [NoLast EXCEPT !.kind = "settle", !.op = r.op,
                              !.arg = r.arg, !.status = ans.status,
                              !.outcome = OK]
           ELSE /\ token' = i.token
                /\ location' = i.location
                /\ last' = [NoLast EXCEPT !.kind = "settle", !.op = r.op,
                              !.arg = r.arg, !.status = ans.status,
                              !.clears = i.clears,
                              !.outcome = handleError(ErrOf(ans))]
      /\ calls' = Settle(r)
      /\ UNCHANGED <<nav, cancelTokens, nextSource, meetings, connections,
                     posts, replies>>

\* the catch block rethrows what getFavorites threw
isFavoriteRethrow(msg) == [outcome |-> msg, result |-> FALSE]
\* the catch block of isFavorite: `return false`
isFavoriteCatch(msg) == [outcome |-> OK, result |-> FALSE]

\* favorites.some(fav => fav.favorite_id === itemId)
someFavorite(favs, itemId) == \E fav \in favs : fav.item = itemId

\* isFavorite fetches every favorite of the actor: getFavorites()
isFavoriteUnfiltered(itemType) == NoFilter
\* the filter isFavorite passes on: getFavorites(itemType)
isFavoriteFilter(itemType) == itemType

\* the continuation of isFavorite after getFavorites settled
IsFavoriteResponse(r, net) ==
  LET ans == IF net.status = 200
               THEN listFavorites(favorites, r.auth, isFavoriteFilter(r.arg.type))
               ELSE Unserved(net)
      i   == responseInterceptor(ErrOf(ans), token, location)
      c   == isFavoriteCatch(handleError(ErrOf(ans)))
  IN  /\ BagIn(r, calls) /\ r.op = "isFavorite"
      /\ IF ans.status = 200
           THEN /\ token' = token
                /\ location' = location
                /\ last' = [NoLast EXCEPT !.kind = "settle", !.op = r.op,
                              !.arg = r.arg, !.status = ans.status,
                              !.outcome = OK, !.actor = UserOf(r.auth),
                              !.result = someFavorite(ans.body, r.arg.item)]
           ELSE /\ token' = i.token
                /\ location' = i.location
                /\ last' = [NoLast EXCEPT !.kind = "settle", !.op = r.op,
                              !.arg = r.arg, !.status = ans.status,
                              !.clears = i.clears,
                              !.outcome = c.outcome, !.result = c.result]
      /\ calls' = Settle(r)
      /\ UNCHANGED <<nav, cancelTokens, nextSource, srv>>

\* the favorites operations
NextFav ==
  \/ \E t \in FavTypeInputs, x \in ItemIds : AddFavorite(t, x)
  \/ \E t \in FavTypeInputs \cup {NoFilter} : GetFavorites(t)
  \/ \E id \in FavIds : RemoveFavorite(id)
  \/ \E t \in FavTypeInputs, x \in ItemIds : IsFavorite(x, t)
  \/ \E r \in BagToSet(calls), net \in PlainResponses : AddFavoriteResponse(r, net)
  \/ \E r \in BagToSet(calls), net \in PlainResponses : GetFavoritesResponse(r, net)
  \/ \E r \in BagToSet(calls), net \in PlainResponses : RemoveFavoriteResponse(r, net)
  \/ \E r \in BagToSet(calls), net \in PlainResponses : IsFavoriteResponse(r, net)

SpecFav == Init /\ [][NextFav]_vars

\* --------------------------------------------------------------- workflows
REASON_INVALID_TRANSITION == "InvalidTransition"
Users       == {"u1", "u2"}
ExpertIds   == {"e1"}
MeetingIds  == 1..MaxMeetings
\* the authorized representative of a health expert
RepOf(expert) == "u2"

\* status: pending, approved, rejected
MeetingStatuses    == {"pending", "approved", "rejected"}
\* status: pending, accepted, rejected
ConnectionStatuses == {"pending", "accepted", "rejected"}
\* the status strings callers pass
MeetingStatusInputs    == {"pending", "approved", "rejected"}
ConnectionStatusInputs == {"accepted", "rejected"}
\* message texts: sequences of characters
Messages == { <<"h", "i">>, <<" ">> }
MSG_MEETING_EMPTY == "Meeting request message cannot be empty"
MSG_CONTACT_EMAIL == "Invalid email format in contact info"

\* !s: only the empty string is refused
IsEmpty(s) == Len(s) = 0
\* !s.trim()
IsBlank(s) == \A k \in 1..Len(s) : s[k] = " "

\* a row is inserted with the status 'approved'
meetingInsertApproved(mt, requester, expert) ==
  LET new == [id |-> mt.next, requester |-> requester, expert |-> expert,
              status |-> "approved"]
  IN  [row |-> new, mt |-> [next |-> mt.next + 1, rows |-> mt.rows \cup {new}]]

\* INSERT INTO meeting_requests: status DEFAULT 'pending'
meetingInsert(mt, requester, expert) ==
  LET new == [id |-> mt.next, requester |-> requester, expert |-> expert,
              status |-> "pending"]
  IN  [row |-> new, mt |-> [next |-> mt.next + 1, rows |-> mt.rows \cup {new}]]

\* a connection is inserted although its ordered pair is in the table
connectionInsertNoUnique(cn, requester, receiver) ==
  LET new == [id |-> cn.next, requester |-> requester, receiver |-> receiver,
              status |-> "pending"]
  IN  [ok |-> TRUE, row |-> new,
       cn |-> [next |-> cn.next + 1, rows |-> cn.rows \cup {new}]]

\* INSERT INTO researcher_connections: status DEFAULT 'pending',
\* UNIQUE(requester_id, receiver_id)
connectionInsert(cn, requester, receiver) ==
  LET new == [id |-> cn.next, requester |-> requester, receiver |-> receiver,
              status |-> "pending"]
  IN  IF \E x \in cn.rows : x.requester = requester /\ x.receiver = receiver
        THEN [ok |-> FALSE, row |-> NoBody, cn |-> cn]
        ELSE [ok |-> TRUE, row |-> new,
              cn |-> [next |-> cn.next + 1, rows |-> cn.rows \cup {new}]]

\* every state has a transition out
fromAnyState(status) == TRUE
\* pending is the only state with a transition out
fromPending(status) == status = "pending"

\* every authenticated actor may resolve a request
anyActor(permitted, user) == user # NoUser
\* only the permitted actor may resolve a request
permittedActor(permitted, user) == user = permitted

\* the transition table: pending to `to`, by the permitted actor
transitionAllowed(status, permitted, user, to, targets) ==
  fromPending(status) /\ permittedActor(permitted, user) /\ to \in targets

RowOf(rows, id) == CHOOSE x \in rows : x.id = id
SetStatus(rows, id, to) ==
  {IF x.id = id THEN [x EXCEPT !.status = to] ELSE x : x \in rows}

\* POST /api/meeting-requests
postMeetingRequest(mt, auth, arg) ==
  LET ins == meetingInsert(mt, UserOf(auth), arg.expert)
  IN  IF UserOf(auth) = NoUser
        THEN [answer |-> Rejection(401, REASON_UNAUTHENTICATED), mt |-> mt]
        ELSE [answer |-> [status |-> 200, detail |-> NoDetail, body |-> ins.row],
              mt |-> ins.mt]

\* PUT /api/meeting-requests/{id}
putMeetingRequest(mt, auth, arg) ==
  IF UserOf(auth) = NoUser
    THEN [answer |-> Rejection(401, REASON_UNAUTHENTICATED), mt |-> mt]
  ELSE IF \A x \in mt.rows : x.id # arg.id
    THEN [answer |-> Rejection(404, REASON_NOT_FOUND), mt |-> mt]
  ELSE LET row == RowOf(mt.rows, arg.id)
       IN  IF transitionAllowed(row.status, RepOf(row.expert), UserOf(auth),
                                arg.status, {"approved", "rejected"})
             THEN [answer |-> [status |-> 200, detail |-> NoDetail,
                               body |-> [row EXCEPT !.status = arg.status]],
                   mt |-> [mt EXCEPT !.rows = SetStatus(mt.rows, arg.id, arg.status)]]
             ELSE [answer |-> Rejection(409, REASON_INVALID_TRANSITION), mt |-> mt]

\* creating a connection request
postConnection(cn, auth, arg) ==
  LET ins == connectionInsert(cn, UserOf(auth), arg.receiver)
  IN  IF UserOf(auth) = NoUser
        THEN [answer |-> Rejection(401, REASON_UNAUTHENTICATED), cn |-> cn]
      ELSE IF ~ins.ok
        THEN [answer |-> Rejection(409, REASON_DUPLICATE), cn |-> cn]
      ELSE [answer |-> [status |-> 200, detail |-> NoDetail, body |-> ins.row],
            cn |-> ins.cn]

\* responding to a connection request
putConnection(cn, auth, arg) ==
  IF UserOf(auth) = NoUser
    THEN [answer |-> Rejection(401, REASON_UNAUTHENTICATED), cn |-> cn]
  ELSE IF \A x \in cn.rows : x.id # arg.id
    THEN [answer |-> Rejection(404, REASON_NOT_FOUND), cn |-> cn]
  ELSE LET row == RowOf(cn.rows, arg.id)
       IN  IF transitionAllowed(row.status, row.receiver, UserOf(auth),
                                arg.status, {"accepted", "rejected"})
             THEN [answer |-> [status |-> 200, detail |-> NoDetail,
                               body |-> [row EXCEPT !.status = arg.status]],
                   cn |-> [cn EXCEPT !.rows = SetStatus(cn.rows, arg.id, arg.status)]]
             ELSE [answer |-> Rejection(409, REASON_INVALID_TRANSITION), cn |-> cn]

\* createMeetingRequest up to the await
CreateMeetingRequest(expert, message, email) ==
  LET arg == [expert |-> expert, message |-> message, email |-> email]
  IN  /\ IF IsBlank(message)
           THEN /\ last' = [NoLast EXCEPT !.kind = "reject",
                              !.op = "createMeetingRequest", !.arg = arg,
                              !.outcome = handleError(LocalErr(MSG_MEETING_EMPTY))]
                /\ UNCHANGED calls
         ELSE IF ~validateEmail(email)
           THEN /\ last' = [NoLast EXCEPT !.kind = "reject",
                              !.op = "createMeetingRequest", !.arg = arg,
                              !.outcome = handleError(LocalErr(MSG_CONTACT_EMAIL))]
                /\ UNCHANGED calls
         ELSE /\ CanCall
              /\ calls' = Send(ApiCall("createMeetingRequest", arg))
              /\ last' = [NoLast EXCEPT !.kind = "start",
                            !.op = "createMeetingRequest", !.arg = arg]
      /\ UNCHANGED <<nav, token, cancelTokens, nextSource, location, srv>>

\* updateMeetingRequestStatus up to the await
UpdateMeetingRequestStatus(id, status) ==
  LET arg == [id |-> id, status |-> status]
  IN  /\ CanCall
      /\ calls' = Send(ApiCall("updateMeetingRequestStatus", arg))
      /\ last' = [NoLast EXCEPT !.kind = "start",
                    !.op = "updateMeetingRequestStatus", !.arg = arg]
      /\ UNCHANGED <<nav, token, cancelTokens, nextSource, location, srv>>

\* a connection request is sent
CreateConnection(receiver) ==
  LET arg == [receiver |-> receiver]
  IN  /\ CanCall
      /\ calls' = Send(ApiCall("createConnection", arg))
      /\ last' = [NoLast EXCEPT !.kind = "start", !.op = "createConnection",
                    !.arg = arg]
      /\ UNCHANGED <<nav, token, cancelTokens, nextSource, location, srv>>

\* the answer to a connection request is sent
RespondConnection(id, status) ==
  LET arg == [id |-> id, status |-> status]
  IN  /\ CanCall
      /\ calls' = Send(ApiCall("respondConnection", arg))
      /\ last' = [NoLast EXCEPT !.kind = "start", !.op = "respondConnection",
                    !.arg = arg]
      /\ UNCHANGED <<nav, token, cancelTokens, nextSource, location, srv>>

\* what `last` keeps of a settled workflow call: the status the row had and
\* whether the caller was another actor than the permitted one
FlowSettled(r, ans, i, from, wrong, dup) ==
  IF ans.status = 200
    THEN [NoLast EXCEPT !.kind = "settle", !.op = r.op, !.arg = r.arg,
            !.status = ans.status, !.outcome = OK, !.actor = UserOf(r.auth),
            !.from = from, !.wrongActor = wrong, !.dup = dup]
    ELSE [NoLast EXCEPT !.kind = "settle", !.op = r.op, !.arg = r.arg,
            !.status = ans.status, !.clears = i.clears,
            !.outcome = handleError(ErrOf(ans)), !.actor = UserOf(r.auth),
            !.from = from, !.wrongActor = wrong, !.dup = dup]

\* the continuation of createMeetingRequest after the await, and its catch
CreateMeetingRequestResponse(r, net) ==
  LET ep  == IF net.status = 200 THEN postMeetingRequest(meetings, r.auth, r.arg)
             ELSE [answer |-> Unserved(net), mt |-> meetings]
      ans == ep.answer
      i   == IF ans.status = 200
               THEN [token |-> token, location |-> location, clears |-> 0]
               ELSE responseInterceptor(ErrOf(ans), token, location)
  IN  /\ BagIn(r, calls) /\ r.op = "createMeetingRequest"
      /\ ep.mt.next <= MaxMeetings + 1
      /\ meetings' = ep.mt
      /\ token' = i.token
      /\ location' = i.location
      /\ last' = FlowSettled(r, ans, i, "none", FALSE, FALSE)
      /\ calls' = Settle(r)
      /\ UNCHANGED <<nav, cancelTokens, nextSource, favorites, connections,
                     posts, replies>>

\* the continuation of updateMeetingRequestStatus after the await, and its
\* catch block
UpdateMeetingRequestStatusResponse(r, net) ==
  LET ep    == IF net.status = 200 THEN putMeetingRequest(meetings, r.auth, r.arg)
               ELSE [answer |-> Unserved(net), mt |-> meetings]
      ans   == ep.answer
      i     == IF ans.status = 200
                 THEN [token |-> token, location |-> location, clears |-> 0]
                 ELSE responseInterceptor(ErrOf(ans), token, location)
      \* the endpoint ran for an authenticated caller and found the row
      found == /\ net.status = 200 /\ UserOf(r.auth) # NoUser
               /\ \E x \in meetings.rows : x.id = r.arg.id
      row   == RowOf(meetings.rows, r.arg.id)
  IN  /\ BagIn(r, calls) /\ r.op = "updateMeetingRequestStatus"
      /\ meetings' = ep.mt
      /\ token' = i.token
      /\ location' = i.location
      /\ last' = FlowSettled(r, ans, i,
                             IF found THEN row.status ELSE "none",
                             found /\ UserOf(r.auth) # RepOf(row.expert), FALSE)
      /\ calls' = Settle(r)
      /\ UNCHANGED <<nav, cancelTokens, nextSource, favorites, connections,
                     posts, replies>>

\* the answer to a connection request arrives
CreateConnectionResponse(r, net) ==
  LET ep   == IF net.status = 200 THEN postConnection(connections, r.auth, r.arg)
              ELSE [answer |-> Unserved(net), cn |-> connections]
      ans  == ep.answer
      i    == IF ans.status = 200
                THEN [token |-> token, location |-> location, clears |-> 0]
                ELSE responseInterceptor(ErrOf(ans), token, location)
      same == {x \in connections.rows :
                 x.requester = UserOf(r.auth) /\ x.receiver = r.arg.receiver}
      \* the endpoint ran and found the ordered pair of the call in the table
      had  == net.status = 200 /\ same # {}
  IN  /\ BagIn(r, calls) /\ r.op = "createConnection"
      /\ connections' = ep.cn
      /\ token' = i.token
      /\ location' = i.location
      /\ last' = FlowSettled(r, ans, i,
                             IF had THEN (CHOOSE x \in same : TRUE).status
                             ELSE "none",
                             FALSE, had)
      /\ calls' = Settle(r)
      /\ UNCHANGED <<nav, cancelTokens, nextSource, favorites, meetings,
                     posts, replies>>

\* the answer to the response to a connection request arrives
RespondConnectionResponse(r, net) ==
  LET ep    == IF net.status = 200 THEN putConnection(connections, r.auth, r.arg)
               ELSE [answer |-> Unserved(net), cn |-> connections]
      ans   == ep.answer
      i     == IF ans.status = 200
                 THEN [token |-> token, location |-> location, clears |-> 0]
                 ELSE responseInterceptor(ErrOf(ans), token, location)
      found == /\ net.status = 200 /\ UserOf(r.auth) # NoUser
               /\ \E x \in connections.rows : x.id = r.arg.id
      row   == RowOf(connections.rows, r.arg.id)
  IN  /\ BagIn(r, calls) /\ r.op = "respondConnection"
      /\ connections' = ep.cn
      /\ token' = i.token
      /\ location' = i.location
      /\ last' = FlowSettled(r, ans, i,
                             IF found THEN row.status ELSE "none",
                             found /\ UserOf(r.auth) # row.receiver, FALSE)
      /\ calls' = Settle(r)
      /\ UNCHANGED <<nav, cancelTokens, nextSource, favorites, meetings,
                     posts, replies>>

\* the ids a connection may have: one per ordered pair of distinct users
ConnectionIds == 1..(Cardinality(Users) * (Cardinality(Users) - 1))

\* no call is outstanding
Idle == calls = EmptyBag

\* the two workflows, one call at a time, with logins that change the acting
\* user
NextFlow ==
  \/ \E e \in GoodEmails : Idle /\ Login(e, MinPasswordLen)
  \/ \E r \in BagToSet(calls), resp \in AuthResponses : LoginResponse(r, resp)
  \/ \E x \in ExpertIds, m \in Messages, e \in FewEmails :
       Idle /\ CreateMeetingRequest(x, m, e)
  \/ \E id \in MeetingIds, st \in MeetingStatusInputs :
       Idle /\ UpdateMeetingRequestStatus(id, st)
  \/ \E u \in Users : Idle /\ UserOf(token) # u /\ CreateConnection(u)
  \/ \E id \in ConnectionIds, st \in ConnectionStatusInputs :
       Idle /\ RespondConnection(id, st)
  \/ \E r \in BagToSet(calls), net \in PlainResponses :
       CreateMeetingRequestResponse(r, net)
  \/ \E r \in BagToSet(calls), net \in PlainResponses :
       UpdateMeetingRequestStatusResponse(r, net)
  \/ \E r \in BagToSet(calls), net \in PlainResponses :
       CreateConnectionResponse(r, net)
  \/ \E r \in BagToSet(calls), net \in PlainResponses :
       RespondConnectionResponse(r, net)

SpecFlow == Init /\ [][NextFlow]_vars

\* ------------------------------------------------------------------- forum
REASON_FORBIDDEN == "Forbidden"
ForumIds   == {"f1"}
PostIds    == 1..MaxForumRows
MSG_TITLE_EMPTY   == "Post title cannot be empty"
MSG_CONTENT_EMPTY == "Post content cannot be empty"
MSG_REPLY_EMPTY   == "Reply content cannot be empty"

\* users.user_type
RoleOf(user) ==
  CASE user = "u1" -> "patient"
    [] user = "u2" -> "researcher"
    [] OTHER      -> "none"

\* every authenticated actor may reply
canReplyAnyone(user) == user # NoUser
\* forum_replies.user_id: must be researcher
canReply(user) == RoleOf(user) = "researcher"

\* POST /api/forums/posts
postForumPost(ps, auth, arg) ==
  LET new == [id |-> ps.next, forum |-> arg.forum, user |-> UserOf(auth)]
  IN  IF UserOf(auth) = NoUser
        THEN [answer |-> Rejection(401, REASON_UNAUTHENTICATED), ps |-> ps]
        ELSE [answer |-> [status |-> 200, detail |-> NoDetail, body |-> new],
              ps |-> [next |-> ps.next + 1, rows |-> ps.rows \cup {new}]]

\* POST /api/forums/replies
postForumReply(rs, ps, auth, arg) ==
  LET new == [id |-> rs.next, post |-> arg.post, user |-> UserOf(auth)]
  IN  IF UserOf(auth) = NoUser
        THEN [answer |-> Rejection(401, REASON_UNAUTHENTICATED), rs |-> rs]
      ELSE IF ~canReply(UserOf(auth))
        THEN [answer |-> Rejection(403, REASON_FORBIDDEN), rs |-> rs]
      ELSE IF \A x \in ps.rows : x.id # arg.post
        THEN [answer |-> Rejection(404, REASON_NOT_FOUND), rs |-> rs]
      ELSE [answer |-> [status |-> 200, detail |-> NoDetail, body |-> new],
            rs |-> [next |-> rs.next + 1, rows |-> rs.rows \cup {new}]]

\* createForumPost up to the await
CreateForumPost(forumId, title, content) ==
  LET arg == [forum |-> forumId, title |-> title, content |-> content]
  IN  /\ IF IsBlank(title)
           THEN /\ last' = [NoLast EXCEPT !.kind = "reject",
                              !.op = "createForumPost", !.arg = arg,
                              !.outcome = handleError(LocalErr(MSG_TITLE_EMPTY))]
                /\ UNCHANGED calls
         ELSE IF IsBlank(content)
           THEN /\ last' = [NoLast EXCEPT !.kind = "reject",
                              !.op = "createForumPost", !.arg = arg,
                              !.outcome = handleError(LocalErr(MSG_CONTENT_EMPTY))]
                /\ UNCHANGED calls
         ELSE /\ CanCall
              /\ calls' = Send(ApiCall("createForumPost", arg))
              /\ last' = [NoLast EXCEPT !.kind = "start",
                            !.op = "createForumPost", !.arg = arg]
      /\ UNCHANGED <<nav, token, cancelTokens, nextSource, location, srv>>

\* createForumReply up to the await
CreateForumReply(postId, content) ==
  LET arg == [post |-> postId, content |-> content]
  IN  /\ IF IsBlank(content)
           THEN /\ last' = [NoLast EXCEPT !.kind = "reject",
                              !.op = "createForumReply", !.arg = arg,
                              !.outcome = handleError(LocalErr(MSG_REPLY_EMPTY))]
                /\ UNCHANGED calls
         ELSE /\ CanCall
              /\ calls' = Send(ApiCall("createForumReply", arg))
              /\ last' = [NoLast EXCEPT !.kind = "start",
                            !.op = "createForumReply", !.arg = arg]
      /\ UNCHANGED <<nav, token, cancelTokens, nextSource, location, srv>>

\* the continuation of createForumPost after the await, and its catch block
CreateForumPostResponse(r, net) ==
  LET ep  == IF net.status = 200 THEN postForumPost(posts, r.auth, r.arg)
             ELSE [answer |-> Unserved(net), ps |-> posts]
      ans == ep.answer
      i   == IF ans.status = 200
               THEN [token |-> token, location |-> location, clears |-> 0]
               ELSE responseInterceptor(ErrOf(ans), token, location)
  IN  /\ BagIn(r, calls) /\ r.op = "createForumPost"
      /\ ep.ps.next <= MaxForumRows + 1
      /\ posts' = ep.ps
      /\ token' = i.token
      /\ location' = i.location
      /\ last' = [FlowSettled(r, ans, i, "none", FALSE, FALSE)
                    EXCEPT !.served = (net.status = 200)]
      /\ calls' = Settle(r)
      /\ UNCHANGED <<nav, cancelTokens, nextSource, favorites, meetings, connections,
                     replies>>

\* the continuation of createForumReply after the await, and its catch block
CreateForumReplyResponse(r, net) ==
  LET ep  == IF net.status = 200
               THEN postForumReply(replies, posts, r.auth, r.arg)
               ELSE [answer |-> Unserved(net), rs |-> replies]
      ans == ep.answer
      i   == IF ans.status = 200
               THEN [token |-> token, location |-> location, clears |-> 0]
               ELSE responseInterceptor(ErrOf(ans), token, location)
  IN  /\ BagIn(r, calls) /\ r.op = "createForumReply"
      /\ ep.rs.next <= MaxForumRows + 1
      /\ replies' = ep.rs
      /\ token' = i.token
      /\ location' = i.location
      \* served: the endpoint ran, for a post that exists
      /\ last' = [FlowSettled(r, ans, i, "none", FALSE, FALSE)
                    EXCEPT !.served = /\ net.status = 200
                                      /\ \E x \in posts.rows : x.id = r.arg.post]
      /\ calls' = Settle(r)
      /\ UNCHANGED <<nav, cancelTokens, nextSource, favorites, meetings, connections,
                     posts>>

\* the forum operations
NextForum ==
  \/ \E f \in ForumIds, t \in Messages, c \in Messages : CreateForumPost(f, t, c)
  \/ \E id \in PostIds, c \in Messages : CreateForumReply(id, c)
  \/ \E r \in BagToSet(calls), net \in PlainResponses :
       CreateForumPostResponse(r, net)
  \/ \E r \in BagToSet(calls), net \in PlainResponses :
       CreateForumReplyResponse(r, net)

SpecForum == Init /\ [][NextForum]_vars

\* ------------------------------------------------- credentials in flight
\* GET /api/meeting-requests?status=
listMeetingRequests(mt, auth, filter) ==
  IF UserOf(auth) = NoUser
    THEN Rejection(401, REASON_UNAUTHENTICATED)
    ELSE [status |-> 200, detail |-> NoDetail,
          body |-> {x \in mt.rows :
                      /\ UserOf(auth) \in {x.requester, RepOf(x.expert)}
                      /\ filter # NoFilter => x.status = filter}]

\* getMeetingRequests up to the await
GetMeetingRequests(filter) ==
  LET arg == [status |-> filter]
  IN  /\ CanSend
      /\ calls' = Send(ApiCall("getMeetingRequests", arg))
      /\ last' = [NoLast EXCEPT !.kind = "start", !.op = "getMeetingRequests",
                    !.arg = arg, !.auth = getToken(token)]
      /\ UNCHANGED <<nav, token, cancelTokens, nextSource, location, srv>>

\* the continuation of getMeetingRequests after the await, and its catch
GetMeetingRequestsResponse(r, net) ==
  LET ans == IF net.status = 200
               THEN listMeetingRequests(meetings, r.auth, r.arg.status)
               ELSE Unserved(net)
      i   == IF ans.status = 200
               THEN [token |-> token, location |-> location, clears |-> 0]
               ELSE responseInterceptor(ErrOf(ans), token, location)
  IN  /\ BagIn(r, calls) /\ r.op = "getMeetingRequests"
      /\ token' = i.token
      /\ location' = i.location
      /\ last' = [FlowSettled(r, ans, i, "none", FALSE, FALSE)
                    EXCEPT !.auth = r.auth]
      /\ calls' = Settle(r)
      /\ UNCHANGED <<nav, cancelTokens, nextSource, srv>>

\* calls that carry a credential while logins and logouts change the store
NextCred ==
  \/ \E e \in GoodEmails : Login(e, MinPasswordLen)
  \/ \E r \in BagToSet(calls), resp \in AuthResponses : LoginResponse(r, resp)
  \/ Logout
  \/ \E r \in BagToSet(calls), resp \in PlainResponses : LogoutResponse(r, resp)
  \/ \E f \in {NoFilter, "pending"} : GetMeetingRequests(f)
  \/ \E r \in BagToSet(calls), net \in PlainResponses :
       GetMeetingRequestsResponse(r, net)

SpecCred == Init /\ [][NextCred]_vars

\* ------------------------------------------------- Navbar and useAuthStore
\* localStorage.getItem('authToken'), called outside TokenManager
storageGetItem(store) == store
\* localStorage.removeItem('authToken'), called outside TokenManager
storageRemoveItem == NoToken

\* useAuthStore.setUser: the effect of Navbar depends on [user, setUser]
setUser(n, user) == [user |-> user, due |-> n.due \/ user # n.user]

\* GET /api/auth/me
getMe(auth) ==
  IF UserOf(auth) = NoUser
    THEN Rejection(401, REASON_UNAUTHENTICATED)
    ELSE [status |-> 200, detail |-> NoDetail, body |-> UserOf(auth)]

\* Navbar's effect, checkAuth, up to the await of getCurrentUser
CheckAuth ==
  LET t == storageGetItem(token)
  IN  /\ nav.due
      /\ nav' = [nav EXCEPT !.due = FALSE]
      /\ IF t # NoToken /\ nav.user = NoUser
           THEN /\ CanSend
                /\ calls' = Send(ApiCall("checkAuth", "none"))
                /\ last' = [NoLast EXCEPT !.kind = "start", !.op = "checkAuth",
                              !.direct = TRUE]
           ELSE /\ UNCHANGED calls
                /\ last' = [NoLast EXCEPT !.kind = "skip", !.op = "checkAuth",
                              !.direct = TRUE]
      /\ UNCHANGED <<token, cancelTokens, nextSource, location, srv>>

\* getCurrentUser settles inside checkAuth: setUser(currentUser), or the
\* catch block that removes the token
CheckAuthResponse(r, net) ==
  LET ans == IF net.status = 200 THEN getMe(r.auth) ELSE Unserved(net)
      i   == responseInterceptor(ErrOf(ans), token, location)
  IN  /\ BagIn(r, calls) /\ r.op = "checkAuth"
      /\ IF ans.status = 200
           THEN /\ nav' = setUser(nav, ans.body)
                /\ token' = token
                /\ location' = location
                /\ last' = [NoLast EXCEPT !.kind = "settle", !.op = r.op,
                              !.status = ans.status, !.outcome = OK,
                              !.auth = r.auth]
           ELSE /\ nav' = nav
                /\ token' = storageRemoveItem
                /\ location' = i.location
                /\ last' = [NoLast EXCEPT !.kind = "settle", !.op = r.op,
                              !.status = ans.status, !.clears = i.clears,
                              !.outcome = handleError(ErrOf(ans)),
                              !.auth = r.auth, !.direct = TRUE]
      /\ calls' = Settle(r)
      /\ UNCHANGED <<cancelTokens, nextSource, srv>>

\* Navbar.handleLogout: useAuthStore.logout() and router.push('/'); the
\* button is rendered while isAuthenticated
HandleLogout ==
  /\ nav.user # NoUser
  /\ token' = storageRemoveItem
  /\ nav' = setUser(nav, NoUser)
  /\ location' = HOME_PATH
  /\ last' = [NoLast EXCEPT !.kind = "authStoreLogout", !.direct = TRUE]
  /\ UNCHANGED <<cancelTokens, nextSource, calls, srv>>

\* the document is loaded anew (after window.location.href was assigned, or
\* by the user): the stores in memory and the requests of the old document
\* are gone, localStorage stays
PageLoad ==
  /\ nav' = [user |-> NoUser, due |-> TRUE]
  /\ calls' = EmptyBag
  /\ cancelTokens' = [k \in Keys |-> NoSource]
  /\ last' = [NoLast EXCEPT !.kind = "load"]
  /\ UNCHANGED <<token, nextSource, location, srv>>

\* the Navbar with the gateway calls that change the stored token
NextNav ==
  \/ CheckAuth
  \/ \E r \in BagToSet(calls), net \in PlainResponses : CheckAuthResponse(r, net)
  \/ HandleLogout
  \/ PageLoad
  \/ \E e \in GoodEmails : Login(e, MinPasswordLen)
  \/ \E r \in BagToSet(calls), resp \in AuthResponses : LoginResponse(r, resp)
  \/ Logout
  \/ \E r \in BagToSet(calls), resp \in PlainResponses : LogoutResponse(r, resp)
  \/ \E f \in {NoFilter} : GetMeetingRequests(f)
  \/ \E r \in BagToSet(calls), net \in PlainResponses :
       GetMeetingRequestsResponse(r, net)

SpecNav == Init /\ [][NextNav]_vars

\* ------------------------------------------------------------ the time limit
\* an axios instance created without a timeout (axios' default, 0: no limit)
axiosConfigNoTimeout == [timeout |-> 0]
\* axios.create({ baseURL, headers, timeout: 30000 })
axiosConfig == [timeout |-> 30000]

\* what axios rejects with when the limit passes: an error with a request and
\* without a response
TimedOut == [status |-> NoStatus, detail |-> NoDetail, tok |-> NoToken]

\* the limit of the instance passes for a request that is still waiting
Timeout(r) ==
  /\ axiosConfig.timeout > 0
  /\ \/ SearchResponse(r, TimedOut)
     \/ GetMeetingRequestsResponse(r, TimedOut)

\* searches and a data call; the network may answer, or never answer
NextLive ==
  \/ \E r \in BagToSet(calls) : Timeout(r)
  \/ \E k \in Keys : Search(k)
  \/ \E r \in BagToSet(calls), resp \in PlainResponses : SearchResponse(r, resp)
  \/ \E r \in BagToSet(calls), isAx \in BOOLEAN, late \in BOOLEAN :
       RejectCancelled(r, isAx, late)
  \/ \E f \in {NoFilter} : GetMeetingRequests(f)
  \/ \E r \in BagToSet(calls), net \in PlainResponses :
       GetMeetingRequestsResponse(r, net)

LiveOps == {"getMeetingRequests"}

\* the timer of every waiting request runs, and a cancelled token rejects its
\* request; the network owes no answer
Fairness ==
  /\ \A s \in Sources :
       WF_vars(\E r \in BagToSet(calls) : r.src = s /\ Timeout(r))
  /\ \A s \in Sources :
       WF_vars(\E r \in BagToSet(calls), isAx \in BOOLEAN, late \in BOOLEAN :
                 r.src = s /\ RejectCancelled(r, isAx, late))
  /\ \A op \in LiveOps :
       WF_vars(\E r \in BagToSet(calls) : r.op = op /\ Timeout(r))

SpecLive == Init /\ [][NextLive]_vars /\ Fairness

\* the writes that are validated locally: forum posts, forum replies and
\* meeting requests
NextWrite ==
  \/ \E f \in ForumIds, t \in Messages, c \in Messages : CreateForumPost(f, t, c)
  \/ \E id \in PostIds, c \in Messages : CreateForumReply(id, c)
  \/ \E x \in ExpertIds, m \in Messages, e \in FewEmails :
       CreateMeetingRequest(x, m, e)
  \/ \E r \in BagToSet(calls), net \in PlainResponses :
       CreateForumPostResponse(r, net)
  \/ \E r \in BagToSet(calls), net \in PlainResponses :
       CreateForumReplyResponse(r, net)
  \/ \E r \in BagToSet(calls), net \in PlainResponses :
       CreateMeetingRequestResponse(r, net)

SpecWrite == Init /\ [][NextWrite]_vars

TypeOK ==
  /\ token \in Tokens \cup {NoToken}
  /\ cancelTokens \in [Keys -> Sources \cup {NoSource}]
  /\ nextSource \in 1..(MaxSources + 1)
  /\ location \in {HOME_PATH, LOGIN_PATH}
  /\ \A r \in BagToSet(calls) : r.op = "search" => CopiesIn(r, calls) = 1
  /\ InFlight <= MaxInFlight
  /\ favorites.next \in 1..(MaxFavRows + 1)
  /\ meetings.next \in 1..(MaxMeetings + 1)
  /\ \A m \in meetings.rows : m.status \in MeetingStatuses
  /\ \A c \in connections.rows : c.status \in ConnectionStatuses
  /\ posts.next \in 1..(MaxForumRows + 1)
  /\ replies.next \in 1..(MaxForumRows + 1)
  /\ nav \in [user : Users \cup {NoUser}, due : BOOLEAN]
  /\ last.direct \in BOOLEAN


\* ================================================================== claims
Settled == last.kind = "settle"

\* C1: whenever a call is answered with a 401 response the credential store
\* is empty right afterwards, whichever operation it was, and the 401
\* reaction cleared it once for that response (and for no other outcome).
C1_UnauthorizedClearsStore ==
  Settled =>
    /\ last.clears = (IF last.status = 401 THEN 1 ELSE 0)
    /\ last.status = 401 => token = NoToken
C1_Witness ==
  Settled /\ last.op = "search" /\ last.status = 401 /\ token = NoToken

\* C2: a search still in flight when another one is started under its key has
\* been cancelled once the new request is out, and it never returns a result.
C2_SupersededNeverDelivers ==
  /\ \A r \in BagToSet(calls) : r.superseded => r.cancelRequested
  /\ (Settled /\ last.superseded) => last.outcome # OK
C2_Witness ==
  /\ Settled /\ last.superseded /\ last.late
  /\ \E r \in BagToSet(calls) :
       r.op = "search" /\ r.key = last.key /\ ~r.cancelRequested

\* C3: once cancel() was called on the source of a request, that request
\* never delivers a result, also when its response still arrives.
C3_CancelledResultDiscarded ==
  (Settled /\ (last.signalled \/ last.late)) => last.outcome # OK
C3_Witness ==
  Settled /\ last.signalled /\ last.late /\ ~last.superseded

\* C4: when a search has finished, by success or by any failure, the registry
\* holds no entry for it.
C4_FinishedLeavesRegistry ==
  (Settled /\ last.op = "search") => cancelTokens[last.key] # last.src

\* C5: a cancelled operation ends with the cancelled outcome, and no operation
\* that was not cancelled ends with it: not success, not a server error, not
\* a missing response, not a validation error.
C5_CancelledIsDistinguished ==
  last.kind \in {"settle", "reject"} =>
    (last.signalled <=> last.outcome = MSG_CANCELLED)
C5_Witness ==
  Settled /\ last.signalled /\ last.outcome = MSG_CANCELLED /\ ~last.late

\* C6: a step of cancelAllRequests leaves the registry empty, and every
\* request whose source was registered before the step is cancelled after it.
C6_CancelAllEmptiesRegistry ==
  [][ last'.kind = "cancelAll" =>
        /\ \A k \in Keys : cancelTokens'[k] = NoSource
        /\ \A r \in BagToSet(calls) :
             (\E k \in Keys : cancelTokens[k] # NoSource /\ cancelTokens[k] = r.src)
               => BagIn([r EXCEPT !.cancelRequested = TRUE], calls') ]_vars
C6_Witness ==
  /\ last.kind = "cancelAll"
  /\ \E r \in BagToSet(calls) : r.cancelRequested /\ ~r.superseded

\* C7: when logout finishes it has not failed, the credential store is empty
\* and the location is the login page, whatever the server answered.
C7_LogoutAlwaysClears ==
  (Settled /\ last.op = "logout") =>
    last.outcome = OK /\ token = NoToken /\ location = LOGIN_PATH
C7_Witness ==
  Settled /\ last.op = "logout" /\ last.status = 500

\* C8: a login with a malformed e-mail or an empty password is rejected
\* before any request is sent.
C8_LoginPrevalidates ==
  [][ (last'.op = "login" /\ last'.kind \in {"start", "reject"}
        /\ (last'.email \in BadEmails \/ last'.pwdLen = 0))
      => (last'.kind = "reject" /\ calls' = calls) ]_vars

\* C9: a registration with a malformed e-mail or a password of fewer than 8
\* characters is rejected: no request is sent and the stored token is kept.
C9_RegisterPrevalidates ==
  [][ (last'.op = "register" /\ last'.kind \in {"start", "reject"}
        /\ (last'.email \in BadEmails \/ last'.pwdLen < 8))
      => (last'.kind = "reject" /\ calls' = calls /\ token' = token) ]_vars
C9_Witness ==
  /\ last.op = "register" /\ last.kind = "reject"
  /\ last.email \in GoodEmails /\ last.pwdLen = 7 /\ token # NoToken

\* C10: the store gets a token only by a successful login or registration
\* and then holds the token that call returned, also when it held another one
\* before; a finished logout and a 401 response leave it empty.
C10_TokenLifecycle ==
  [][ /\ (token' # token /\ token' # NoToken) =>
           (last'.kind = "settle" /\ last'.op \in {"login", "register"}
             /\ last'.outcome = OK)
      /\ (last'.kind = "settle" /\ last'.op \in {"login", "register"}
            /\ last'.outcome = OK) => token' = last'.data
      /\ (last'.kind = "settle" /\ (last'.op = "logout" \/ last'.status = 401))
           => token' = NoToken ]_vars
C10_Witness ==
  Settled /\ last.op = "login" /\ last.outcome = OK /\ token = "t2"
     /\ last.data = "t2"

\* C11: a call answered with 401 ends, whichever operation it was, with an
\* outcome the caller can tell from success and from every other failure
\* (another status, no response, a cancellation).
OtherOutcomes ==
  {OK, MSG_CANCELLED}
    \cup {handleError(ErrOf(f)) : f \in {g \in Failures : g.status # 401}}
C11_UnauthenticatedDistinguished ==
  (Settled /\ last.status = 401) => last.outcome \notin OtherOutcomes

\* C12: isFavorite never ends with an error: when the fetch of the favorites
\* fails (a status other than 2xx, 401 included, or no response) it returns
\* false.
C12_IsFavoriteNeverThrows ==
  (Settled /\ last.op = "isFavorite") =>
    /\ last.outcome = OK
    /\ last.status # 200 => last.result = FALSE
C12_Witness ==
  /\ Settled /\ last.op = "isFavorite" /\ last.status = 401
  /\ last.outcome = OK /\ last.result = FALSE /\ token = NoToken

\* C13: addFavorite for a triple (actor, type, item) the store already holds
\* succeeds and returns the stored reference, without an error.
C13_AddIsIdempotent ==
  (Settled /\ last.op = "addFavorite" /\ last.dup) =>
    /\ last.outcome = OK
    /\ last.result \in favorites.rows

\* C14: the favorites table never holds two rows for one triple (actor, type,
\* item), whatever addFavorite and removeFavorite calls were made.
C14_OneReferencePerTriple ==
  \A x, y \in favorites.rows :
     SameTriple(x, y.user, y.type, y.item) => x = y
C14_Witness ==
  /\ Settled /\ last.op = "addFavorite" /\ last.dup
  /\ Cardinality(favorites.rows) = 1

\* C15: addFavorite, getFavorites and isFavorite called with an item type
\* outside {trial, publication, expert, researcher} are rejected and send no
\* request.
C15_ItemTypeValidated ==
  [][(/\ last'.op \in {"addFavorite", "getFavorites", "isFavorite"}
      /\ last'.kind \in {"start", "reject"}
      /\ last'.arg.type \notin ItemTypes \cup {NoFilter})
       => (last'.kind = "reject" /\ calls' = calls)]_vars

\* C16: an attempt to change the status of a meeting request that is approved
\* or rejected fails with InvalidTransition and the stored status stays as it
\* was.
C16_TerminalAbsorbing ==
  (/\ Settled /\ last.op = "updateMeetingRequestStatus"
   /\ last.from \in {"approved", "rejected"}) =>
    /\ last.outcome = REASON_INVALID_TRANSITION
    /\ \A m \in meetings.rows : m.id = last.arg.id => m.status = last.from
C16_Witness ==
  /\ Settled /\ last.op = "updateMeetingRequestStatus"
  /\ last.from = "approved" /\ last.arg.status = "rejected"
  /\ ~last.wrongActor /\ last.outcome = REASON_INVALID_TRANSITION

C18_MeetingStatusMachine ==
  [][ /\ \A m \in meetings'.rows : m.status \in MeetingStatuses
      /\ \A m \in meetings'.rows :
           (\A o \in meetings.rows : o.id # m.id) => m.status = "pending"
      /\ \A o \in meetings.rows, m \in meetings'.rows :
           (o.id = m.id /\ o.status # m.status) =>
             (o.status = "pending" /\ m.status \in {"approved", "rejected"})
    ]_vars
C18_Witness ==
  /\ Settled /\ last.op = "updateMeetingRequestStatus" /\ last.outcome = OK
  /\ last.from = "pending"
  /\ \E m \in meetings.rows : m.id = last.arg.id /\ m.status = "approved"

\* C19: a connection request for an ordered pair (requester, receiver) that
\* the table already holds fails with DuplicateRelationship, whatever the
\* state of the stored record, which keeps its state; the table never holds
\* two records for one ordered pair.
C19_DuplicateConnectionRejected ==
  /\ \A x, y \in connections.rows :
       (x.requester = y.requester /\ x.receiver = y.receiver) => x = y
  /\ (Settled /\ last.op = "createConnection" /\ last.dup) =>
       /\ last.outcome = REASON_DUPLICATE
       /\ \E x \in connections.rows :
            /\ x.requester = last.actor /\ x.receiver = last.arg.receiver
            /\ x.status = last.from
C19_Witness ==
  /\ Settled /\ last.op = "createConnection" /\ last.dup
  /\ last.from = "rejected" /\ last.outcome = REASON_DUPLICATE
  /\ Cardinality(connections.rows) = 1

\* C20: a forum reply sent by a patient fails with Forbidden, an outcome no
\* other failure and no success has; the same call sent by a researcher
\* succeeds.
GenericOutcomes ==
  {OK, MSG_CANCELLED, MSG_UNEXPECTED}
    \cup {handleError(ErrOf(f)) : f \in Failures}
    \cup {handleError(ErrOf(Rejection(404, REASON_NOT_FOUND)))}
C21_ReplyCheckedBeforeWrite ==
  [][(/\ last'.op = "createForumReply"
      /\ last'.kind \in {"start", "reject"}
      /\ ~canReply(UserOf(token)))
       => calls' = calls]_vars

\* C26: isFavorite(itemId, itemType) returns true only if the actor has a
\* favorite with that type and that item id; a favorite of another type with
\* the same item id does not make it true.
C26_IsFavoriteExactType ==
  (Settled /\ last.op = "isFavorite" /\ last.status = 200 /\ last.result) =>
    \E x \in favorites.rows :
       SameTriple(x, last.actor, last.arg.type, last.arg.item)
C26_Witness ==
  /\ Settled /\ last.op = "isFavorite" /\ last.status = 200 /\ ~last.result
  /\ \E x \in favorites.rows :
       /\ x.user = last.actor /\ x.item = last.arg.item
       /\ x.type # last.arg.type /\ last.arg.type \in ItemTypes

\* C30: createForumPost with a blank title or content, createForumReply with
\* a blank content and createMeetingRequest with a blank message or a
\* malformed contact e-mail end with an error, send no request and leave the
\* stored token and the registry of cancel tokens as they were.
OnlySpaces(s) == \A k \in DOMAIN s : s[k] = " "
InvalidWrite(op, arg) ==
  CASE op = "createForumPost"  -> OnlySpaces(arg.title) \/ OnlySpaces(arg.content)
    [] op = "createForumReply" -> OnlySpaces(arg.content)
    [] op = "createMeetingRequest" ->
         OnlySpaces(arg.message) \/ arg.email \in BadEmails
    [] OTHER -> FALSE
C30_RejectedWriteHasNoEffect ==
  [][(/\ last'.kind \in {"start", "reject"}
      /\ InvalidWrite(last'.op, last'.arg))
       => /\ last'.kind = "reject"
          /\ last'.outcome \notin {OK, "none"}
          /\ calls' = calls
          /\ token' = token
          /\ cancelTokens' = cancelTokens]_vars
C30_Witness ==
  /\ last.kind = "reject" /\ last.op = "createMeetingRequest"
  /\ ~OnlySpaces(last.arg.message) /\ last.arg.email \in BadEmails
  /\ last.outcome = MSG_CONTACT_EMAIL
  /\ token # NoToken /\ calls # EmptyBag

\* C25: starting, completing or failing a search under one key never cancels
\* a search in flight under another key and never changes the registry entry
\* of another key.
C25_KeysIndependent ==
  [][last'.kind \in {"start", "settle"} =>
       \A k \in Keys \ {last'.key} :
          /\ cancelTokens'[k] = cancelTokens[k]
          /\ \A r \in BagToSet(calls) :
               r.key = k => CopiesIn(r, calls') = CopiesIn(r, calls)]_vars
C25_Witness ==
  /\ last.kind = "start" /\ last.key = "searchTrials"
  /\ \E r \in BagToSet(calls) :
       /\ r.key = "searchResearchers" /\ ~r.cancelRequested
       /\ cancelTokens[r.key] = r.src
  /\ \E r \in BagToSet(calls) : r.key = "searchTrials" /\ r.src = last.src

\* C28: a search in flight that was not cancelled is the one its key's
\* registry entry holds, so a later start under the key or cancelAllRequests
\* reaches it; no key has two such searches, and a search that completes
\* removes no entry but its own.
C28_CurrentSearchRegistered ==
  \A r \in BagToSet(calls) :
     (r.op = "search" /\ ~r.cancelRequested) =>
       /\ cancelTokens[r.key] = r.src
       /\ CopiesIn(r, calls) = 1
       /\ \A q \in BagToSet(calls) :
            (q.op = "search" /\ q.key = r.key /\ ~q.cancelRequested) => q = r
C28_Witness ==
  /\ Settled /\ last.op = "search" /\ last.outcome = OK
  /\ cancelTokens[last.key] = NoSource
  /\ \E r \in BagToSet(calls) :
       r.op = "search" /\ r.key = last.key /\ r.cancelRequested

\* C23: a call carries the token that was in the store when it was sent (none
\* if the store was empty), and a call in flight keeps what it was sent with
\* when the store changes.
C23_TokenReadAtSend ==
  [][ /\ \A r \in BagToSet(calls') :
           (r.op = "getMeetingRequests" /\ CopiesIn(r, calls') > CopiesIn(r, calls))
             => r.auth = token
      /\ token' # token =>
           \A r \in BagToSet(calls) :
              r.op = "getMeetingRequests" =>
                CopiesIn(r, calls') >= CopiesIn(r, calls) - 1 ]_vars
C23_Witness ==
  /\ token = NoToken /\ last.kind = "start" /\ last.op = "getMeetingRequests"
  /\ \E r \in BagToSet(calls) : r.op = "getMeetingRequests" /\ r.auth = "t1"
  /\ \E r \in BagToSet(calls) : r.op = "getMeetingRequests" /\ r.auth = NoToken

\* C27: a 401 that answers a request sent before the latest successful login
\* leaves the token of that login in the store.
C27_StaleUnauthorizedKeepsToken ==
  [][(/\ last'.kind = "settle" /\ last'.status = 401
      /\ last'.op = "getMeetingRequests"
      /\ token # NoToken /\ last'.auth # token)
       => token' = token]_vars

\* C22: no step reads or writes localStorage['authToken'] except through
\* TokenManager's getToken, setToken and removeToken.
C22_StorageOnlyViaTokenManager == ~last.direct

\* C29: whenever useAuthStore holds a user (isAuthenticated), the token is in
\* the store; so after a 401 or the gateway's logout removed the token, no user
\* is held.
C29_AuthenticatedHasToken == nav.user # NoUser => token # NoToken

\* C24: every started call eventually settles: a search with its result or an
\* error, and a data call likewise; and a call that got no response at all
\* (the 30 s limit passed) ends with the network-failure message.
C24_EveryCallSettles ==
  /\ \A s \in Sources :
       (\E r \in BagToSet(calls) : r.src = s)
         ~> (Settled /\ last.src = s /\ ~(\E r \in BagToSet(calls) : r.src = s))
  /\ \A op \in LiveOps :
       (\E r \in BagToSet(calls) : r.op = op) ~> (Settled /\ last.op = op)
  /\ [](Settled /\ last.status = NoStatus /\ ~last.signalled
          => last.outcome = MSG_NO_RESPONSE)
C24_Witness ==
  /\ Settled /\ last.op = "search" /\ last.status = NoStatus
  /\ ~last.signalled /\ last.outcome = MSG_NO_RESPONSE
  /\ \E r \in BagToSet(calls) : r.op = "getMeetingRequests"

====
